---- MODULE Spec2Model ----
(***************************************************************************)
(* Model of the skill-eval execution engine                                *)
(* (evals/src/skill_eval/runner.py and the run command of cli.py).         *)
(*                                                                         *)
(* Two state machines share this module:                                   *)
(*   Spec        the task scheduler: Runner.run_parallel on a thread pool, *)
(*               and the sequential branch of the run command;             *)
(*   SpecClaude  the process supervisor Runner.run_claude, with the agent  *)
(*               process, its stdout pipe and a clock as the environment.  *)
(***************************************************************************)
EXTENDS Integers, Sequences, FiniteSets, TLC

VARIABLES
    \* ---- scheduler (run_parallel / cli.run) ----
    parallel,       \* cli option --parallel: TRUE run_parallel, FALSE sequential loop
    nTasks,         \* len(tasks): the batch is tasks 1..nTasks
    max_workers,    \* run_parallel(max_workers=...)
    hasCallback,    \* progress_callback is not None
    mainPc,         \* position of the calling thread
    submitted,      \* number of executor.submit calls made so far
    taskState,      \* per task: "new", "queued", "running", "done"
    outcome,        \* per task: how its run_scenario call ended
    yielded,        \* futures already yielded by as_completed
    results,        \* the list `results` of run_parallel
    cbCalls,        \* every invocation of progress_callback, in order
    seqIdx,         \* sequential branch: index of the next task to run
    \* ---- process supervisor (run_claude) ----
    rcPc,           \* position inside run_claude
    now,            \* time.time(), in seconds
    proc,           \* the agent process: "none", "running", "exited", "killed"
    exitCode,       \* exit status of a process that exited by itself, else -1
    returncode,     \* proc.returncode as the supervisor knows it, -1 for None
    osPipe,         \* bytes written to stdout and not yet read from the pipe
    pyBuf,          \* bytes read from the pipe, buffered inside proc.stdout
    nWritten,       \* number of lines the process has started to write
    stdout_lines,   \* the list stdout_lines, joined
    stderrPipe,     \* what the process wrote to stderr
    start_time,
    last_output_time,
    selectStart,    \* when the pending select() call began
    error_msg,      \* "none", "timeout" or "stall"
    atKill,         \* stdout_lines at the moment a timer killed the process
    silence,        \* seconds since the process last completed a line (or was
                    \* launched); stays above stall_timeout once it exceeded it
    ret,            \* the tuple run_claude returned
    \* ---- stream decoder (_parse_json_output) ----
    dPc,            \* "idle", "input" (not decoded yet) or "decoded"
    json_str,       \* the argument json_str, as its sequence of lines
    record,         \* what the last call returned, or the exception it raised
    tools_used_list,\* result["tools_used"], the list made of the set tools_used
    prevRecord,     \* what the call before the last one returned
    deleted,        \* TRUE once the skipped lines were deleted from json_str
    \* ---- change-set detector (_find_changed_files) ----
    fPc,            \* "idle", "input", "found", "copied" or "found again"
    original_dir,   \* the argument: "None", "missing" (no such path) or "dir"
    original,       \* the tree at original_dir: path -> node
    modified,       \* the tree at modified_dir: path -> node
    changed,        \* the paths the last call returned
    prevChanged,    \* the paths the call before it returned
    copied,         \* the path whose file was copied over the original's
    \* ---- task pipeline (run_scenario) ----
    phase,          \* per task: how far its run_scenario call has come
    env_dir,        \* per task: the local env_dir, 0 before mkdtemp returned
    dirs,           \* per temporary-directory name: the directory of that name
    agent,          \* per task: its agent process and the directory it runs in
    artifacts,      \* per task: the files written under its output directory
    \* ---- output directories of a batch (cli.run, run_scenario) ----
    oPc,            \* "idle", "load" (scenarios loaded), "run" (batch built)
    skill_sets,     \* per scenario: the names of the sets of its skill-sets.yaml
    tasks,          \* the list `tasks` the run command builds
    recPc,          \* per task of the list: "waiting", "writing" or "written"
    writers,        \* per output directory: the tasks that wrote into it
    \* ---- one run_scenario call in detail ----
    sPc,            \* "idle", "start", "built", "exited", "supervised",
                    \* "recorded", "diffed", "cleaned", "returned", "raised"
    skills,         \* skill_set.skills
    mcp_servers,    \* skill_set.mcp_servers, by the names of the servers
    scenario_env,   \* TRUE if scenario.path / ".env" exists
    context,        \* scenario.context_dir: whether it exists, and its files
    env_tree,       \* the files of env_dir, each with where its content is from
    mcp_config_path,\* the second value prepare_environment returned
    ended,          \* how the supervising loop of run_claude ended
    claude_ret,     \* what run_claude returned
    output,         \* the files of output_dir
    steps,          \* the phases of the call that have finished, in order
    run_result,     \* the RunResult run_scenario returned
    \* ---- one _download_skill call ----
    uPc,            \* position inside _download_skill
    origin,         \* what the url names: the host, the ref, the skill's directory
    url,            \* the url argument, as urlparse splits it
    download_url,   \* the result of _normalize_github_url
    folder_name     \* the folder of skills_dir the document goes to

schedVars == <<parallel, nTasks, max_workers, hasCallback, mainPc, submitted,
               taskState, outcome, yielded, results, cbCalls, seqIdx>>

claudeVars == <<rcPc, now, proc, exitCode, returncode, osPipe, pyBuf, nWritten,
                stdout_lines, stderrPipe, start_time, last_output_time, selectStart,
                error_msg, atKill, silence, ret>>

decodeVars == <<dPc, json_str, record, tools_used_list, prevRecord, deleted>>

diffVars == <<fPc, original_dir, original, modified, changed, prevChanged, copied>>

envVars == <<phase, env_dir, dirs, agent, artifacts>>

outVars == <<oPc, skill_sets, tasks, recPc, writers>>

runVars == <<sPc, skills, mcp_servers, scenario_env, context, env_tree,
             mcp_config_path, ended, claude_ret, output, steps, run_result>>

urlVars == <<uPc, origin, url, download_url, folder_name>>

restVars == <<outVars, runVars, urlVars>>

vars == <<schedVars, claudeVars, decodeVars, diffVars, envVars, restVars>>

\* What the actions of each component leave alone.
notSched == <<claudeVars, decodeVars, diffVars, envVars, restVars>>

notClaude == <<schedVars, decodeVars, diffVars, envVars, restVars>>

notDecode == <<schedVars, claudeVars, diffVars, envVars, restVars>>

notDiff == <<schedVars, claudeVars, decodeVars, envVars, restVars>>

notEnv == <<claudeVars, decodeVars, diffVars, restVars>>

notOut == <<schedVars, claudeVars, decodeVars, diffVars, envVars, runVars, urlVars>>

notRun == <<schedVars, claudeVars, decodeVars, diffVars, envVars, outVars, urlVars>>

notUrl == <<schedVars, claudeVars, decodeVars, diffVars, envVars, outVars, runVars>>

Range(s) == {s[k] : k \in DOMAIN s}

(***************************************************************************)
(* Bounds of the model.                                                    *)
(***************************************************************************)
NumTasks == 3        \* largest batch
MaxWorkers == 2      \* largest worker pool
NumEnvNames == 2     \* names tempfile.mkdtemp chooses from

(***************************************************************************)
(* The batch: the tasks the run command builds, one per scenario and       *)
(* skill set, in order.                                                    *)
(***************************************************************************)
TaskScenario ==
    <<"scenario-1", "scenario-1", "scenario-2", "scenario-2">>

TaskSkillSet ==
    <<"skill-set-1", "skill-set-2", "skill-set-1", "skill-set-2">>

Tasks == 1..nTasks

\* What a run_scenario call can do: return a successful RunResult, return a
\* failed one, or raise (the text is the exception's description).
ExcDescs == {"Simulated failure", "Failed to download skill"}

Outcomes == {"ok", "fail"} \cup ExcDescs

CallbackExc == "callback failed"

NoError == <<>>

\* RunResult(...) as run_scenario builds it for a task (runner.py 634-642).
PipelineResult(t, o) ==
    [scenario_name |-> TaskScenario[t],
     skill_set_name |-> TaskSkillSet[t],
     success |-> (o = "ok"),
     error |-> NoError]

\* The failure result of the except branch: f"Unexpected error: {e}".
FailureResultNoDescription(t, e) ==
    [scenario_name |-> TaskScenario[t],
     skill_set_name |-> TaskSkillSet[t],
     success |-> FALSE,
     error |-> <<"Unexpected error: ">>]

FailureResult(t, e) ==
    [scenario_name |-> TaskScenario[t],
     skill_set_name |-> TaskSkillSet[t],
     success |-> FALSE,
     error |-> <<"Unexpected error: ", e>>]

Running == {t \in 1..NumTasks : taskState[t] = "running"}

Queued == {t \in 1..NumTasks : taskState[t] = "queued"}

\* ThreadPoolExecutor(max_workers=...): a queued work item starts only on a
\* free worker thread, and the pool never has more than max_workers threads.
CanStartUnbounded == TRUE

CanStart == Cardinality(Running) < max_workers

(***************************************************************************)
(* One iteration of the `for future in as_completed(...)` loop for the     *)
(* future of task t: the set of ways it can end, each a record             *)
(* [results, cbCalls, propagates].  The callback is the caller's code: each*)
(* invocation either returns or raises.                                    *)
(***************************************************************************)
Call(calls, t, r) == Append(calls, [task |-> t, result |-> r])

ExceptBranch(res, calls, t, e) ==
    LET failure == FailureResult(t, e)
        res2 == Append(res, failure)
    IN  IF hasCallback
        THEN {[results |-> res2, cbCalls |-> Call(calls, t, failure), propagates |-> p] :
                 p \in BOOLEAN}
        ELSE {[results |-> res2, cbCalls |-> calls, propagates |-> FALSE]}

TryBranch(t) ==
    IF outcome[t] \in ExcDescs
    THEN \* future.result() re-raises the pipeline's exception
         ExceptBranch(results, cbCalls, t, outcome[t])
    ELSE LET result == PipelineResult(t, outcome[t])
             res1 == Append(results, result)
         IN  IF hasCallback
             THEN LET calls1 == Call(cbCalls, t, result)
                  IN  {[results |-> res1, cbCalls |-> calls1, propagates |-> FALSE]}
                      \cup \* the callback raised inside the try block
                      ExceptBranch(res1, calls1, t, CallbackExc)
             ELSE {[results |-> res1, cbCalls |-> cbCalls, propagates |-> FALSE]}

(***************************************************************************)
(* Scheduler: initial states and actions.                                  *)
(***************************************************************************)
ClaudeIdle ==
    /\ rcPc = "idle"
    /\ now = 0
    /\ proc = "none"
    /\ exitCode = -1
    /\ returncode = -1
    /\ osPipe = <<>>
    /\ pyBuf = <<>>
    /\ nWritten = 0
    /\ stdout_lines = <<>>
    /\ stderrPipe = <<>>
    /\ start_time = 0
    /\ last_output_time = 0
    /\ selectStart = 0
    /\ error_msg = "none"
    /\ atKill = <<>>
    /\ silence = 0
    /\ ret = [returned |-> FALSE]

\* No call of _parse_json_output is being followed.
NotCalled == [exc |-> "not called"]

DecodeIdle ==
    /\ dPc = "idle"
    /\ json_str = <<>>
    /\ record = NotCalled
    /\ tools_used_list = <<>>
    /\ prevRecord = NotCalled
    /\ deleted = FALSE

\* A directory with nothing in it, and no path.
EmptyTree == [p \in {} |-> "none"]

NoPath == <<>>

DiffIdle ==
    /\ fPc = "idle"
    /\ original_dir = "None"
    /\ original = EmptyTree
    /\ modified = EmptyTree
    /\ changed = {}
    /\ prevChanged = {}
    /\ copied = NoPath

\* The names mkdtemp(prefix="skill-eval-") can give a directory, by the
\* number that stands for the random part.
EnvNames == 1..NumEnvNames

\* made counts the directories created under the name so far.
NoDir == [exists |-> FALSE, skills |-> {}, users |-> {}, made |-> 0]

NoAgent == [alive |-> FALSE, config |-> 0]

\* No run_scenario call has begun and no temporary directory exists.
EnvInit ==
    /\ phase = [t \in 1..NumTasks |-> "start"]
    /\ env_dir = [t \in 1..NumTasks |-> 0]
    /\ dirs = [n \in EnvNames |-> NoDir]
    /\ agent = [t \in 1..NumTasks |-> NoAgent]
    /\ artifacts = [t \in 1..NumTasks |-> {}]

\* The output directories a batch can name: run_dir / scenario / skill set.
ScenarioNames == <<"scenario-1", "scenario-2">>

SetNames == {"baseline", "with-skill"}

OutputDirs == Range(ScenarioNames) \X SetNames

\* No batch is being built.
OutIdle ==
    /\ oPc = "idle"
    /\ skill_sets = <<>>
    /\ tasks = <<>>
    /\ recPc = <<>>
    /\ writers = [d \in OutputDirs |-> {}]

\* No run_scenario call is being followed in detail.
RunIdle ==
    /\ sPc = "idle"
    /\ skills = <<>>
    /\ mcp_servers = {}
    /\ scenario_env = FALSE
    /\ context = [exists |-> FALSE, files |-> EmptyTree]
    /\ env_tree = [exists |-> FALSE, files |-> EmptyTree]
    /\ mcp_config_path = "None"
    /\ ended = "not yet"
    /\ claude_ret = [returned |-> FALSE]
    /\ output = EmptyTree
    /\ steps = <<>>
    /\ run_result = [returned |-> FALSE]

NoUrl == [host |-> <<>>, port |-> "", path |-> <<>>]

\* No _download_skill call is being followed in detail.
UrlIdle ==
    /\ uPc = "idle"
    /\ origin = [kind |-> "none", host |-> <<>>, port |-> "", ref |-> <<>>, dir |-> <<>>]
    /\ url = NoUrl
    /\ download_url = NoUrl
    /\ folder_name = <<>>

RestIdle == OutIdle /\ RunIdle /\ UrlIdle

SchedInit ==
    /\ parallel \in BOOLEAN
    /\ nTasks \in 1..NumTasks
    /\ max_workers \in (IF parallel THEN 1..MaxWorkers ELSE {1})
    /\ hasCallback \in (IF parallel THEN BOOLEAN ELSE {FALSE})
    /\ mainPc = IF parallel THEN "submit" ELSE "seq"
    /\ submitted = 0
    /\ taskState = [t \in 1..NumTasks |-> "new"]
    /\ outcome = [t \in 1..NumTasks |-> "none"]
    /\ yielded = {}
    /\ results = <<>>
    /\ cbCalls = <<>>
    /\ seqIdx = 1

Init == SchedInit /\ ClaudeIdle /\ DecodeIdle /\ DiffIdle /\ EnvInit /\ RestIdle

\* executor.submit(self._run_task, task), one task after the other.
Submit ==
    /\ mainPc = "submit"
    /\ submitted < nTasks
    /\ submitted' = submitted + 1
    /\ taskState' = [taskState EXCEPT ![submitted + 1] = "queued"]
    /\ mainPc' = IF submitted + 1 = nTasks THEN "collect" ELSE "submit"
    /\ UNCHANGED <<parallel, nTasks, max_workers, hasCallback, outcome, yielded,
                   results, cbCalls, seqIdx>>
    /\ UNCHANGED notSched

\* A worker thread takes the oldest queued work item.
WorkerStart(t) ==
    /\ taskState[t] = "queued"
    /\ \A u \in Queued : t <= u
    /\ CanStart
    /\ taskState' = [taskState EXCEPT ![t] = "running"]
    /\ UNCHANGED <<parallel, nTasks, max_workers, hasCallback, mainPc, submitted,
                   outcome, yielded, results, cbCalls, seqIdx>>
    /\ UNCHANGED notSched

\* The list `results` when a worker thread has run _run_task: the worker
\* hands its RunResult to the future and does not touch the list.
ResultsAppendedByWorker(t, o) == Append(results, PipelineResult(t, o))

ResultsAfterRun(t, o) == results

\* _run_task -> run_scenario ends: the future holds a result or an exception.
WorkerFinish(t, o) ==
    /\ taskState[t] = "running"
    /\ taskState' = [taskState EXCEPT ![t] = "done"]
    /\ outcome' = [outcome EXCEPT ![t] = o]
    /\ results' = ResultsAfterRun(t, o)
    /\ UNCHANGED <<parallel, nTasks, max_workers, hasCallback, mainPc, submitted,
                   yielded, cbCalls, seqIdx>>
    /\ UNCHANGED notSched

\* as_completed yields a finished future; the loop body runs for it.
Collect(t) ==
    /\ mainPc = "collect"
    /\ taskState[t] = "done"
    /\ t \notin yielded
    /\ \E o \in TryBranch(t) :
          /\ results' = o.results
          /\ cbCalls' = o.cbCalls
          /\ mainPc' = IF o.propagates THEN "unwinding" ELSE "collect"
    /\ yielded' = yielded \cup {t}
    /\ UNCHANGED <<parallel, nTasks, max_workers, hasCallback, submitted, taskState,
                   outcome, seqIdx>>
    /\ UNCHANGED notSched

\* Every future was yielded: the with block ends and results is returned.
Return ==
    /\ mainPc = "collect"
    /\ yielded = Tasks
    /\ mainPc' = "returned"
    /\ UNCHANGED <<parallel, nTasks, max_workers, hasCallback, submitted, taskState,
                   outcome, yielded, results, cbCalls, seqIdx>>
    /\ UNCHANGED notSched

\* An exception left the loop: the with block's exit waits for every submitted
\* work item (shutdown(wait=True)), then the exception leaves run_parallel.
Propagate ==
    /\ mainPc = "unwinding"
    /\ \A t \in Tasks : taskState[t] = "done"
    /\ mainPc' = "raised"
    /\ UNCHANGED <<parallel, nTasks, max_workers, hasCallback, submitted, taskState,
                   outcome, yielded, results, cbCalls, seqIdx>>
    /\ UNCHANGED notSched

\* Sequential branch of the run command: result = runner.run_scenario(...)
\* for each scenario and skill set in turn, with no try around the call.
SeqRun(o) ==
    /\ mainPc = "seq"
    /\ taskState' = [taskState EXCEPT ![seqIdx] = "done"]
    /\ outcome' = [outcome EXCEPT ![seqIdx] = o]
    /\ IF o \in ExcDescs
       THEN /\ mainPc' = "raised"
            /\ seqIdx' = seqIdx
       ELSE /\ seqIdx' = seqIdx + 1
            /\ mainPc' = IF seqIdx = nTasks THEN "returned" ELSE "seq"
    /\ UNCHANGED <<parallel, nTasks, max_workers, hasCallback, submitted, yielded,
                   results, cbCalls>>
    /\ UNCHANGED notSched

Next ==
    \/ Submit
    \/ \E t \in 1..NumTasks : WorkerStart(t)
    \/ \E t \in 1..NumTasks, o \in Outcomes : WorkerFinish(t, o)
    \/ \E t \in 1..NumTasks : Collect(t)
    \/ Return
    \/ Propagate
    \/ \E o \in Outcomes : SeqRun(o)

Spec == Init /\ [][Next]_vars

(***************************************************************************)
(* The process supervisor, Runner.run_claude.                              *)
(*                                                                         *)
(* Time is counted in seconds.  The supervisor's own statements take no    *)
(* time; time passes only while it waits in select() (at most PollInterval)*)
(* or is blocked in readline().                                            *)
(***************************************************************************)
timeout == 3         \* run_claude(timeout=...), seconds
stall_timeout == 1   \* run_claude(stall_timeout=...), seconds
MaxLines == 2        \* lines the agent process writes at most
MaxTime == 6         \* the clock stops here
PollInterval == 1    \* self._read_output_line(proc, timeout=1.0)

(***************************************************************************)
(* Output lines of the agent process.  A line is the JSON text it holds:   *)
(*   json     "blank" (nothing but whitespace), "invalid" (json.loads      *)
(*            raises JSONDecodeError), "overflow" (a JSON number of more   *)
(*            than 4300 digits: json.loads raises ValueError from int(),   *)
(*            which is no JSONDecodeError), "nonobj" (a JSON value that is *)
(*            no object), "obj"                                            *)
(*   type     msg["type"]                                                  *)
(*   message  "obj" or "null": the shape of msg["message"]                 *)
(*   content  msg["message"]["content"], a list of segments                *)
(*   usage    "obj" or "null": the shape of msg["usage"]                   *)
(* and a segment is [type, text, name, input, skill], where input is "obj" *)
(* or "null" and Null stands for a JSON null in a string field.            *)
(***************************************************************************)
Null == "<null>"

TextSeg(text) ==
    [type |-> "text", text |-> text, name |-> "", input |-> "obj", skill |-> ""]

ToolSeg(name, input, skill) ==
    [type |-> "tool_use", text |-> "", name |-> name, input |-> input, skill |-> skill]

AssistantLine(message, content) ==
    [json |-> "obj", type |-> "assistant", message |-> message,
     content |-> content, usage |-> "obj", num_turns |-> 0]

ResultLine(usage) ==
    [json |-> "obj", type |-> "result", message |-> "obj",
     content |-> <<>>, usage |-> usage, num_turns |-> 1]

OtherLine(json) ==
    [json |-> json, type |-> "none", message |-> "obj",
     content |-> <<>>, usage |-> "obj", num_turns |-> 0]

TextLine == AssistantLine("obj", <<TextSeg("Done")>>)

SkillLine == AssistantLine("obj", <<ToolSeg("Skill", "obj", "my-skill")>>)

GarbageLine == OtherLine("invalid")      \* not JSON

NonObjectLine == OtherLine("nonobj")     \* e.g. 42 or [1]

BlankLine == OtherLine("blank")          \* an empty line, or spaces only

OverflowLine == OtherLine("overflow")    \* e.g. the digit 1 written 5000 times

NullUsageLine == ResultLine("null")      \* {"type": "result", "usage": null}

NullMessageLine == AssistantLine("null", <<>>)   \* {"type": "assistant", "message": null}

\* The lines the modelled agent process may write, and the lines it may
\* write in two pieces (the first piece without its newline).
ProcLines ==
    {TextLine, SkillLine, GarbageLine, NonObjectLine, NullUsageLine, NullMessageLine}

PartialLines == {TextLine}

\* What travels through the pipe: a whole line, the head of a line (no
\* newline yet) or the tail that completes it.
Unit(msg, frag) == [msg |-> msg, frag |-> frag]

\* Text concatenation of buffered bytes with newly read bytes: a head is
\* completed by the tail that follows it.
Combine(buf, pipe) ==
    IF buf # <<>> /\ pipe # <<>>
       /\ buf[Len(buf)].frag = "head" /\ pipe[1].frag = "tail"
    THEN SubSeq(buf, 1, Len(buf) - 1) \o <<Unit(pipe[1].msg, "line")>> \o Tail(pipe)
    ELSE buf \o pipe

HasLine(buf) == buf # <<>> /\ buf[1].frag = "line"

OpenHead ==
    LET all == pyBuf \o osPipe
    IN  all # <<>> /\ all[Len(all)].frag = "head"

(***************************************************************************)
(* _log_progress(line, elapsed, log): "none" when it returns, else the     *)
(* exception it raises.  Only json.JSONDecodeError is caught.              *)
(***************************************************************************)
SegLogRaises(c) ==
    c.type = "tool_use" /\ c.name = "Skill" /\ c.input = "null"

LogProgress(u) ==
    IF u.frag # "line" \/ u.msg.json \in {"blank", "invalid"}
    THEN "none"                                                   \* JSONDecodeError
    ELSE IF u.msg.json = "overflow" THEN "ValueError"             \* json.loads
    ELSE IF u.msg.json = "nonobj" THEN "AttributeError"           \* msg.get
    ELSE IF u.msg.type # "assistant" THEN "none"
    ELSE IF u.msg.message = "null" THEN "AttributeError"          \* None.get
    ELSE IF \E k \in DOMAIN u.msg.content : SegLogRaises(u.msg.content[k])
         THEN "AttributeError"
    ELSE "none"

(***************************************************************************)
(* _parse_json_output(json_str) on the joined output.  The record it       *)
(* returns, with exc = "none", or the exception that leaves it.            *)
(* output_text is the "\n\n".join of the text parts.  A line without its    *)
(* newline (the last one of the text) is decoded as any other line; a head *)
(* of a line that was never completed is no JSON.                          *)
(***************************************************************************)
PaddedText == " Done "

WhitespaceText == "   "

\* text.strip() for the texts of the model.
Strip(text) ==
    IF text = PaddedText THEN "Done"
    ELSE IF text = WhitespaceText THEN ""
    ELSE text

EmptyRecord ==
    [exc |-> "none", text_parts |-> <<>>, skills_invoked |-> <<>>,
     tools_used |-> {}, num_turns |-> -1]

RECURSIVE ParseContent(_, _)
ParseContent(content, acc) ==
    IF content = <<>> \/ acc.exc # "none" THEN acc
    ELSE LET c == Head(content)
             acc2 ==
                 IF c.type = "text"
                 THEN IF c.text = Null THEN [acc EXCEPT !.exc = "AttributeError"]
                      ELSE IF Strip(c.text) # ""
                           THEN [acc EXCEPT !.text_parts = Append(@, Strip(c.text))]
                           ELSE acc
                 ELSE IF c.type = "tool_use"
                 THEN LET a1 == IF c.name # ""
                                THEN [acc EXCEPT !.tools_used = @ \cup {c.name}]
                                ELSE acc
                      IN  IF c.name = "Skill"
                          THEN IF c.input = "null"
                               THEN [a1 EXCEPT !.exc = "AttributeError"]
                               ELSE IF c.skill # ""
                                    THEN [a1 EXCEPT !.skills_invoked = Append(@, c.skill)]
                                    ELSE a1
                          ELSE a1
                 ELSE acc
         IN  ParseContent(Tail(content), acc2)

ParseLine(u, acc) ==
    IF u.frag = "line" /\ u.msg.json = "overflow"
    THEN [acc EXCEPT !.exc = "ValueError"]               \* json.loads, not caught
    ELSE IF u.frag # "line" \/ u.msg.json # "obj" THEN acc     \* skipped
    ELSE LET a1 ==
                 IF u.msg.type = "assistant"
                 THEN IF u.msg.message = "null"
                      THEN [acc EXCEPT !.exc = "AttributeError"]
                      ELSE ParseContent(u.msg.content, acc)
                 ELSE acc
         IN  IF a1.exc = "none" /\ u.msg.type = "result"
             THEN IF u.msg.usage = "null"
                  THEN [a1 EXCEPT !.num_turns = u.msg.num_turns, !.exc = "AttributeError"]
                  ELSE [a1 EXCEPT !.num_turns = u.msg.num_turns]
             ELSE a1

RECURSIVE ParseLines(_, _)
ParseLines(raw, acc) ==
    IF raw = <<>> \/ acc.exc # "none" THEN acc
    ELSE ParseLines(Tail(raw), ParseLine(Head(raw), acc))

RECURSIVE Join(_)
Join(parts) ==
    IF Len(parts) <= 1 THEN parts
    ELSE <<Head(parts), "\n\n">> \o Join(Tail(parts))

ParseJsonOutput(raw) ==
    LET acc == ParseLines(raw, EmptyRecord)
    IN  [exc |-> acc.exc,
         output_text |-> Join(acc.text_parts),
         skills_invoked |-> acc.skills_invoked,
         tools_used |-> acc.tools_used,
         num_turns |-> acc.num_turns]

\* The dict {} as its readers see it through parsed.get(key, default).
EmptyDict ==
    [exc |-> "none", output_text |-> <<>>, skills_invoked |-> <<>>,
     tools_used |-> {}, num_turns |-> -1]

(***************************************************************************)
(* What run_claude returns: (parsed, success, error, raw_json).            *)
(***************************************************************************)
TimeoutMsg == <<"Timeout after ", timeout \div 60, " minutes">>

StallMsg == <<"Stalled for ", stall_timeout, "s (possibly waiting for approval)">>

ErrorText(cause) ==
    IF cause = "timeout" THEN TimeoutMsg
    ELSE IF cause = "stall" THEN StallMsg
    ELSE <<>>

\* except Exception as e: return {}, False, str(e), ""
ExceptionReturn(e) ==
    [returned |-> TRUE, raised |-> TRUE, parsed |-> EmptyDict, success |-> FALSE,
     error |-> <<e>>, raw_json |-> <<>>]

SuccessIgnoringTimers(cause, rc) == rc = 0

Success(cause, rc) == IF cause # "none" THEN FALSE ELSE rc = 0

\* Lines 546-556, once stdout_lines and stderr_lines are complete.
NormalReturn(lines, stderr, cause, rc) ==
    LET decoded == IF lines # <<>> THEN ParseJsonOutput(lines) ELSE EmptyDict
        parsed == IF stderr # <<>>
                  THEN [decoded EXCEPT !.output_text = @ \o <<"\n\n[stderr]\n">> \o stderr]
                  ELSE decoded
    IN  IF parsed.exc # "none"
        THEN ExceptionReturn(parsed.exc)
        ELSE [returned |-> TRUE, raised |-> FALSE, parsed |-> parsed,
              success |-> Success(cause, rc),
              error |-> ErrorText(cause), raw_json |-> lines]

(***************************************************************************)
(* The agent process and the clock.                                        *)
(***************************************************************************)
Readable == osPipe # <<>> \/ proc # "running"     \* data, or end of file

Blocked ==
    /\ rcPc = "readline"
    /\ proc = "running"
    /\ osPipe = <<>>
    /\ ~HasLine(pyBuf)

\* How long the process has been silent: a completed line ends the silence,
\* a second spent waiting lengthens it.  A silence that went beyond
\* stall_timeout is kept, so that it stays visible afterwards.
Emitted(s) == IF s > stall_timeout THEN s ELSE 0

Waited(s) == IF s > stall_timeout THEN s ELSE s + 1

ProcWriteLine(l) ==
    /\ proc = "running"
    /\ nWritten < MaxLines
    /\ ~OpenHead
    /\ osPipe' = Append(osPipe, Unit(l, "line"))
    /\ nWritten' = nWritten + 1
    /\ UNCHANGED <<rcPc, now, proc, exitCode, returncode, pyBuf, stdout_lines,
                   start_time, last_output_time, selectStart, error_msg, atKill, ret>>
    /\ silence' = Emitted(silence)
    /\ UNCHANGED stderrPipe
    /\ UNCHANGED notClaude

ProcWriteHead(l) ==
    /\ proc = "running"
    /\ nWritten < MaxLines
    /\ ~OpenHead
    /\ osPipe' = Append(osPipe, Unit(l, "head"))
    /\ nWritten' = nWritten + 1
    /\ UNCHANGED <<rcPc, now, proc, exitCode, returncode, pyBuf, stdout_lines,
                   start_time, last_output_time, selectStart, error_msg, atKill, ret>>
    /\ UNCHANGED <<stderrPipe, silence>>
    /\ UNCHANGED notClaude

ProcWriteTail ==
    /\ proc = "running"
    /\ OpenHead
    /\ LET all == pyBuf \o osPipe
       IN  osPipe' = Combine(osPipe, <<Unit(all[Len(all)].msg, "tail")>>)
    /\ UNCHANGED <<rcPc, now, proc, exitCode, returncode, pyBuf, nWritten,
                   stdout_lines, start_time, last_output_time, selectStart,
                   error_msg, atKill, ret>>
    /\ silence' = Emitted(silence)
    /\ UNCHANGED stderrPipe
    /\ UNCHANGED notClaude

\* The process writes to its stderr, which is read only by the final drain.
ProcWriteStderr ==
    /\ proc = "running"
    /\ stderrPipe = <<>>
    /\ stderrPipe' = <<"warning">>
    /\ UNCHANGED <<rcPc, now, proc, exitCode, returncode, osPipe, pyBuf, nWritten,
                   stdout_lines, start_time, last_output_time, selectStart,
                   error_msg, atKill, ret>>
    /\ UNCHANGED silence
    /\ UNCHANGED notClaude

ProcExit(code) ==
    /\ proc = "running"
    /\ proc' = "exited"
    /\ exitCode' = code
    /\ UNCHANGED <<rcPc, now, returncode, osPipe, pyBuf, nWritten, stdout_lines,
                   start_time, last_output_time, selectStart, error_msg, atKill, ret>>
    /\ UNCHANGED <<stderrPipe, silence>>
    /\ UNCHANGED notClaude

Tick ==
    /\ now < MaxTime
    /\ \/ rcPc = "select" /\ ~Readable /\ now - selectStart < PollInterval
       \/ Blocked
    /\ now' = now + 1
    /\ UNCHANGED <<rcPc, proc, exitCode, returncode, osPipe, pyBuf, nWritten,
                   stdout_lines, start_time, last_output_time, selectStart,
                   error_msg, atKill, ret>>
    /\ silence' = Waited(silence)
    /\ UNCHANGED stderrPipe
    /\ UNCHANGED notClaude

(***************************************************************************)
(* run_claude, statement by statement.                                     *)
(***************************************************************************)
ClaudeInit ==
    /\ rcPc = "launch"
    /\ now = 0
    /\ proc = "none"
    /\ exitCode = -1
    /\ returncode = -1
    /\ osPipe = <<>>
    /\ pyBuf = <<>>
    /\ nWritten = 0
    /\ stdout_lines = <<>>
    /\ stderrPipe = <<>>
    /\ start_time = 0
    /\ last_output_time = 0
    /\ selectStart = 0
    /\ error_msg = "none"
    /\ atKill = <<>>
    /\ silence = 0
    /\ ret = [returned |-> FALSE]

SchedIdle ==
    /\ parallel = FALSE
    /\ nTasks = 1
    /\ max_workers = 1
    /\ hasCallback = FALSE
    /\ mainPc = "idle"
    /\ submitted = 0
    /\ taskState = [t \in 1..NumTasks |-> "new"]
    /\ outcome = [t \in 1..NumTasks |-> "none"]
    /\ yielded = {}
    /\ results = <<>>
    /\ cbCalls = <<>>
    /\ seqIdx = 1

InitClaude == ClaudeInit /\ SchedIdle /\ DecodeIdle /\ DiffIdle /\ EnvInit /\ RestIdle

\* subprocess.Popen(...) and lines 509-513.
Launch ==
    /\ rcPc = "launch"
    /\ proc' = "running"
    /\ start_time' = now
    /\ last_output_time' = now
    /\ rcPc' = "loop"
    /\ UNCHANGED <<now, exitCode, returncode, osPipe, pyBuf, nWritten, stdout_lines,
                   selectStart, error_msg, atKill, ret>>
    /\ UNCHANGED <<stderrPipe, silence>>
    /\ UNCHANGED notClaude

\* subprocess.Popen(...) raises (no claude executable, bad cwd).
LaunchFails ==
    /\ rcPc = "launch"
    /\ rcPc' = "done"
    /\ ret' = ExceptionReturn("FileNotFoundError")
    /\ UNCHANGED <<now, proc, exitCode, returncode, osPipe, pyBuf, nWritten,
                   stdout_lines, start_time, last_output_time, selectStart,
                   error_msg, atKill>>
    /\ UNCHANGED <<stderrPipe, silence>>
    /\ UNCHANGED notClaude

\* while proc.poll() is None
LoopTest ==
    /\ rcPc = "loop"
    /\ IF proc = "running"
       THEN /\ rcPc' = "check"
            /\ returncode' = returncode
       ELSE /\ rcPc' = "drain"
            /\ returncode' = exitCode
    /\ UNCHANGED <<now, proc, exitCode, osPipe, pyBuf, nWritten, stdout_lines,
                   start_time, last_output_time, selectStart, error_msg, atKill, ret>>
    /\ UNCHANGED <<stderrPipe, silence>>
    /\ UNCHANGED notClaude

\* proc.kill(): Popen.send_signal polls first and sends nothing to a process
\* that has already exited; a killed process leaves returncode unset.
Kill(cause) ==
    /\ error_msg' = cause
    /\ atKill' = stdout_lines
    /\ rcPc' = "drain"
    /\ IF proc = "running"
       THEN /\ proc' = "killed"
            /\ returncode' = returncode
       ELSE /\ proc' = proc
            /\ returncode' = exitCode

\* Lines 517-532: the two timers.
Check ==
    /\ rcPc = "check"
    /\ IF now - start_time > timeout
       THEN /\ Kill("timeout")
            /\ selectStart' = selectStart
       ELSE IF now - last_output_time > stall_timeout
       THEN /\ Kill("stall")
            /\ selectStart' = selectStart
       ELSE /\ rcPc' = "select"
            /\ selectStart' = now
            /\ UNCHANGED <<proc, returncode, error_msg, atKill>>
    /\ UNCHANGED <<now, exitCode, osPipe, pyBuf, nWritten, stdout_lines,
                   start_time, last_output_time, ret>>
    /\ UNCHANGED <<stderrPipe, silence>>
    /\ UNCHANGED notClaude

\* select.select([proc.stdout], [], [], timeout) finds the pipe readable.
SelectReady ==
    /\ rcPc = "select"
    /\ Readable
    /\ rcPc' = "readline"
    /\ UNCHANGED <<now, proc, exitCode, returncode, osPipe, pyBuf, nWritten,
                   stdout_lines, start_time, last_output_time, selectStart,
                   error_msg, atKill, ret>>
    /\ UNCHANGED <<stderrPipe, silence>>
    /\ UNCHANGED notClaude

\* select times out: _read_output_line returns None, and `continue`.
SelectTimeout ==
    /\ rcPc = "select"
    /\ ~Readable
    /\ now - selectStart >= PollInterval
    /\ rcPc' = "loop"
    /\ UNCHANGED <<now, proc, exitCode, returncode, osPipe, pyBuf, nWritten,
                   stdout_lines, start_time, last_output_time, selectStart,
                   error_msg, atKill, ret>>
    /\ UNCHANGED <<stderrPipe, silence>>
    /\ UNCHANGED notClaude

\* Lines 539-541 for a line that readline returned.
GotLine(u) ==
    /\ stdout_lines' = Append(stdout_lines, u)
    /\ last_output_time' = now
    /\ IF LogProgress(u) = "none"
       THEN /\ rcPc' = "loop"
            /\ ret' = ret
       ELSE /\ rcPc' = "done"
            /\ ret' = ExceptionReturn(LogProgress(u))

\* proc.stdout.readline() returns: a buffered line, else a line from the
\* pipe; at end of file what is left, and '' (-> None, `continue`) if nothing.
Readline ==
    /\ rcPc = "readline"
    /\ LET fill == ~HasLine(pyBuf)
           buf == IF fill THEN Combine(pyBuf, osPipe) ELSE pyBuf
           pipe == IF fill THEN <<>> ELSE osPipe
       IN  /\ HasLine(buf) \/ proc # "running"
           /\ osPipe' = pipe
           /\ IF buf = <<>>
              THEN /\ pyBuf' = buf
                   /\ rcPc' = "loop"
                   /\ UNCHANGED <<stdout_lines, last_output_time, ret>>
              ELSE /\ pyBuf' = Tail(buf)
                   /\ GotLine(Head(buf))
    /\ UNCHANGED <<now, proc, exitCode, returncode, nWritten, start_time,
                   selectStart, error_msg, atKill>>
    /\ UNCHANGED <<stderrPipe, silence>>
    /\ UNCHANGED notClaude

\* readline() took what the pipe held, found no newline, and waits for more.
ReadlineWaits ==
    /\ rcPc = "readline"
    /\ proc = "running"
    /\ osPipe # <<>>
    /\ ~HasLine(pyBuf)
    /\ ~HasLine(Combine(pyBuf, osPipe))
    /\ pyBuf' = Combine(pyBuf, osPipe)
    /\ osPipe' = <<>>
    /\ UNCHANGED <<rcPc, now, proc, exitCode, returncode, nWritten, stdout_lines,
                   start_time, last_output_time, selectStart, error_msg, atKill, ret>>
    /\ UNCHANGED <<stderrPipe, silence>>
    /\ UNCHANGED notClaude

\* _drain_remaining_output reads to end of file; then lines 546-556.
Drain ==
    /\ rcPc = "drain"
    /\ proc # "running"
    /\ LET lines == stdout_lines \o Combine(pyBuf, osPipe)
       IN  /\ stdout_lines' = lines
           /\ ret' = NormalReturn(lines, stderrPipe, error_msg, returncode)
    /\ pyBuf' = <<>>
    /\ osPipe' = <<>>
    /\ rcPc' = "done"
    /\ UNCHANGED <<now, proc, exitCode, returncode, nWritten, start_time,
                   last_output_time, selectStart, error_msg, atKill>>
    /\ UNCHANGED <<stderrPipe, silence>>
    /\ UNCHANGED notClaude

NextClaude ==
    \/ Launch
    \/ LaunchFails
    \/ LoopTest
    \/ Check
    \/ SelectReady
    \/ SelectTimeout
    \/ Readline
    \/ ReadlineWaits
    \/ Drain
    \/ \E l \in ProcLines : ProcWriteLine(l)
    \/ \E l \in PartialLines : ProcWriteHead(l)
    \/ ProcWriteTail
    \/ ProcWriteStderr
    \/ \E code \in {0, 1} : ProcExit(code)
    \/ Tick

SpecClaude == InitClaude /\ [][NextClaude]_vars

(***************************************************************************)
(* The stream decoder called on its own: _parse_json_output(json_str) for  *)
(* every text of at most MaxInput lines, and called again on the same text *)
(* without the lines the loop skips.                                       *)
(***************************************************************************)
MaxInput == 3        \* lines of the longest input text

PaddedLine == AssistantLine("obj", <<TextSeg(PaddedText)>>)

OtherSkillLine == AssistantLine("obj", <<ToolSeg("Skill", "obj", "other-skill")>>)

\* {"type": "tool_use", "name": "Skill", "input": {}}: no skill named.
UnnamedSkillLine == AssistantLine("obj", <<ToolSeg("Skill", "obj", "")>>)

MixedLine ==
    AssistantLine("obj", <<ToolSeg("Skill", "obj", "my-skill"), TextSeg(WhitespaceText),
                           ToolSeg("Read", "obj", ""), TextSeg("Done")>>)

UsageLine == ResultLine("obj")

NullTextLine == AssistantLine("obj", <<TextSeg(Null)>>)

NullInputLine == AssistantLine("obj", <<ToolSeg("Skill", "null", "")>>)

DecoderLines ==
    {BlankLine, GarbageLine, NonObjectLine, OverflowLine,
     TextLine, PaddedLine, SkillLine, OtherSkillLine, UnnamedSkillLine, MixedLine,
     UsageLine, NullUsageLine, NullMessageLine, NullTextLine, NullInputLine}

InputTexts ==
    UNION {[1..n -> {Unit(l, "line") : l \in DecoderLines}] : n \in 0..MaxInput}

\* list(tools_used): the elements of the set, each once, in the set's order,
\* which the language leaves open.
ListOfWithRepeats(S) == {l \in [1..Cardinality(S) + 1 -> S] : Range(l) = S}

ListOf(S) == {l \in [1..Cardinality(S) -> S] : Range(l) = S}

\* The lines the loop passes over: blank ones, those json.loads does not
\* turn into a value, and values that are no objects.
Skipped(u) == u.frag # "line" \/ u.msg.json # "obj"

Kept(u) == ~Skipped(u)

DecodeInit ==
    /\ dPc = "input"
    /\ json_str \in InputTexts
    /\ record = NotCalled
    /\ tools_used_list = <<>>
    /\ prevRecord = NotCalled
    /\ deleted = FALSE

InitDecode == DecodeInit /\ SchedIdle /\ ClaudeIdle /\ DiffIdle /\ EnvInit /\ RestIdle

\* result = self._parse_json_output(json_str)
Decode ==
    /\ dPc = "input"
    /\ record' = ParseJsonOutput(json_str)
    /\ tools_used_list' \in ListOf(ParseJsonOutput(json_str).tools_used)
    /\ prevRecord' = record
    /\ dPc' = "decoded"
    /\ UNCHANGED <<json_str, deleted>>
    /\ UNCHANGED notDecode

\* The caller deletes the skipped lines from the text, to decode it again.
DeleteSkipped ==
    /\ dPc = "decoded"
    /\ ~deleted
    /\ \E k \in DOMAIN json_str : Skipped(json_str[k])
    /\ json_str' = SelectSeq(json_str, Kept)
    /\ deleted' = TRUE
    /\ dPc' = "input"
    /\ UNCHANGED <<record, tools_used_list, prevRecord>>
    /\ UNCHANGED notDecode

NextDecode ==
    \/ Decode
    \/ DeleteSkipped

SpecDecode == InitDecode /\ [][NextDecode]_vars

(***************************************************************************)
(* The change-set detector, _find_changed_files(original_dir,              *)
(* modified_dir, exclude_names).                                           *)
(*                                                                         *)
(* A tree maps each path below its root (a sequence of names) to a node:   *)
(* a directory, or a regular file with its content and modification time.  *)
(* Every path of a tree has its parent in the tree, as a directory.  The   *)
(* list the function returns is kept as the set of its paths: os.listdir   *)
(* fixes no order, and no path is appended twice, since a name is in at    *)
(* most one of diff_files, right_only and subdirs.                         *)
(***************************************************************************)
MaxMtime == 2        \* latest modification time of a file of the inputs

\* exclude_names as run_scenario passes it.
exclude_names == {".claude", ".cache", "Caches", ".env"}

Contents == {<<"x">>, <<"y">>, <<"x", "y">>}

DirNode == [kind |-> "dir", content |-> <<>>, mtime |-> 0]

FileNode(content, mtime) == [kind |-> "file", content |-> content, mtime |-> mtime]

FileNodes(mtimes) == {FileNode(c, t) : c \in Contents, t \in mtimes}

\* The trees of the model: a.txt, and d, which is a file or a directory
\* holding b.txt and the directory .cache with c.txt.
FileAt(path, mtimes) == {EmptyTree} \cup {path :> n : n \in FileNodes(mtimes)}

CacheTrees ==
    {EmptyTree,
     (<<"d", ".cache">> :> DirNode) @@ (<<"d", ".cache", "c.txt">> :> FileNode(<<"x">>, 1))}

Trees(mtimes) ==
    {a @@ d : a \in FileAt(<<"a.txt">>, mtimes),
              d \in FileAt(<<"d">>, mtimes)
                    \cup {(<<"d">> :> DirNode) @@ b @@ c :
                             b \in FileAt(<<"d", "b.txt">>, mtimes), c \in CacheTrees}}

Names == {"a.txt", "b.txt", "c.txt", "d", ".cache"}

\* os.listdir(root / rel)
ListDir(tree, rel) == {n \in Names : Append(rel, n) \in DOMAIN tree}

IsFile(tree, path) == path \in DOMAIN tree /\ tree[path].kind = "file"

IsDir(tree, path) == path \in DOMAIN tree /\ tree[path].kind = "dir"

\* item.rglob("*"): every path below item.
RGlob(tree, item) ==
    {f \in DOMAIN tree : Len(f) > Len(item) /\ SubSeq(f, 1, Len(item)) = item}

\* filecmp._sig(os.stat(f)): file type, size, modification time.
Sig(node) == <<node.kind, Len(node.content), node.mtime>>

\* filecmp.cmp(f1, f2, shallow=True), as dircmp calls it through cmpfiles:
\* equal signatures make the files equal without a look at their content.
CmpSignatureOnly(n1, n2) == Sig(n1) = Sig(n2)

Cmp(n1, n2) ==
    IF Sig(n1) = Sig(n2) THEN TRUE
    ELSE IF Len(n1.content) # Len(n2.content) THEN FALSE
    ELSE n1.content = n2.content

\* filecmp.dircmp(original_dir / rel, modified_dir / rel, ignore=exclude_names)
LeftList(rel) == ListDir(original, rel) \ exclude_names

RightList(rel) == ListDir(modified, rel) \ exclude_names

Common(rel) == LeftList(rel) \cap RightList(rel)

RightOnly(rel) == RightList(rel) \ LeftList(rel)

CommonDirs(rel) ==
    {n \in Common(rel) : IsDir(original, Append(rel, n)) /\ IsDir(modified, Append(rel, n))}

CommonFiles(rel) ==
    {n \in Common(rel) : IsFile(original, Append(rel, n)) /\ IsFile(modified, Append(rel, n))}

DiffFilesAll(rel) == CommonFiles(rel)

DiffFiles(rel) ==
    {n \in CommonFiles(rel) : ~Cmp(original[Append(rel, n)], modified[Append(rel, n)])}

\* Lines 76-78 and 87-89: the files below item whose own name is not excluded.
NewFilesBelow(item) ==
    {f \in RGlob(modified, item) : IsFile(modified, f) /\ f[Len(f)] \notin exclude_names}

\* _compare_dirs(dcmp, rel_path): what it appends to changed.
RECURSIVE CompareDirs(_)
CompareDirs(rel) ==
    LET differ == {Append(rel, n) : n \in DiffFiles(rel) \ exclude_names}
        new == UNION {IF IsFile(modified, Append(rel, n)) THEN {Append(rel, n)}
                      ELSE NewFilesBelow(Append(rel, n)) :
                         n \in RightOnly(rel) \ exclude_names}
        below == UNION {CompareDirs(Append(rel, n)) : n \in CommonDirs(rel) \ exclude_names}
    IN  differ \cup new \cup below

FindChangedFiles ==
    IF original_dir # "dir" THEN NewFilesBelow(NoPath)
    ELSE CompareDirs(NoPath)

DiffInit ==
    /\ fPc = "input"
    /\ original_dir \in {"None", "missing", "dir"}
    /\ original \in (IF original_dir = "dir" THEN Trees({1}) ELSE {EmptyTree})
    /\ modified \in Trees(1..MaxMtime)
    /\ changed = {}
    /\ prevChanged = {}
    /\ copied = NoPath

InitDiff == DiffInit /\ SchedIdle /\ ClaudeIdle /\ DecodeIdle /\ EnvInit /\ RestIdle

\* changed = _find_changed_files(original_dir, modified_dir, exclude_names)
Find ==
    /\ fPc \in {"input", "copied"}
    /\ changed' = FindChangedFiles
    /\ prevChanged' = changed
    /\ fPc' = IF fPc = "input" THEN "found" ELSE "found again"
    /\ UNCHANGED <<original_dir, original, modified, copied>>
    /\ UNCHANGED notDiff

\* The caller copies a file reported as changed over the original's file of
\* the same path: shutil.copy2 keeps the modification time, shutil.copy
\* gives the copy the time of the copying.
CopyOver(path, keepTime) ==
    /\ fPc = "found"
    /\ path \in changed
    /\ IsFile(original, path)
    /\ IsFile(modified, path)
    /\ original' = [original EXCEPT ![path] =
                       FileNode(modified[path].content,
                                IF keepTime THEN modified[path].mtime ELSE MaxMtime + 1)]
    /\ copied' = path
    /\ fPc' = "copied"
    /\ UNCHANGED <<original_dir, modified, changed, prevChanged>>
    /\ UNCHANGED notDiff

NextDiff ==
    \/ Find
    \/ \E path \in DOMAIN modified, keepTime \in BOOLEAN : CopyOver(path, keepTime)

SpecDiff == InitDiff /\ [][NextDiff]_vars

(***************************************************************************)
(* The task pipeline, Runner.run_scenario, phase by phase, for the tasks   *)
(* of a batch: run by the workers of run_parallel, or one after the other  *)
(* by the sequential loop of the run command.                              *)
(*                                                                         *)
(* phase: "start", "building" (mkdtemp done), "built" (prepare_environment *)
(* returned), "agent" (the agent process runs), "supervised" (run_claude   *)
(* returned), "recorded" (output.md, raw.jsonl, metadata.yaml written),    *)
(* "diffed" (changed files copied), "cleaned" (rmtree done), "raised" (an  *)
(* exception left run_scenario).                                           *)
(***************************************************************************)
EnvTasks == 2        \* largest batch whose pipelines are followed

\* skill_set.skills of a task: the second skill set names a remote skill.
SkillsOf(t) ==
    IF TaskSkillSet[t] = "skill-set-1" THEN {"skills/local-skill"}
    ELSE {"https://example.com/skills/remote-skill/SKILL.md"}

HasRemoteSkill(t) == TaskSkillSet[t] = "skill-set-2"

Artifacts == {"output.md", "raw.jsonl", "metadata.yaml"}

\* The thread of task t is inside run_scenario.
InScenario(t) ==
    IF parallel THEN taskState[t] = "running"
    ELSE mainPc = "seq" /\ seqIdx = t

\* tempfile.mkdtemp creates the directory itself, under a name no existing
\* file or directory has.
CanCreateAny(name) == TRUE

CanCreate(name) == ~dirs[name].exists

Use(d, t) == [d EXCEPT !.users = @ \cup {t}]

\* env_dir = Path(tempfile.mkdtemp(prefix="skill-eval-"))
Mkdtemp(t, name) ==
    /\ InScenario(t)
    /\ phase[t] = "start"
    /\ CanCreate(name)
    /\ dirs' = [dirs EXCEPT ![name] = [exists |-> TRUE, skills |-> {}, users |-> {t},
                                       made |-> @.made + 1]]
    /\ env_dir' = [env_dir EXCEPT ![t] = name]
    /\ phase' = [phase EXCEPT ![t] = "building"]
    /\ UNCHANGED <<agent, artifacts>>
    /\ UNCHANGED schedVars
    /\ UNCHANGED notEnv

\* The rest of prepare_environment: context, credentials, skills, MCP config.
BuildEnv(t) ==
    /\ phase[t] = "building"
    /\ dirs' = [dirs EXCEPT ![env_dir[t]] = [Use(@, t) EXCEPT !.skills = SkillsOf(t)]]
    /\ phase' = [phase EXCEPT ![t] = "built"]
    /\ UNCHANGED <<env_dir, agent, artifacts>>
    /\ UNCHANGED schedVars
    /\ UNCHANGED notEnv

\* _download_skill raises RuntimeError: it leaves prepare_environment and
\* run_scenario, where nothing catches it.
BuildFails(t) ==
    /\ phase[t] = "building"
    /\ HasRemoteSkill(t)
    /\ dirs' = [dirs EXCEPT ![env_dir[t]] = Use(@, t)]
    /\ phase' = [phase EXCEPT ![t] = "raised"]
    /\ UNCHANGED <<env_dir, agent, artifacts>>
    /\ UNCHANGED schedVars
    /\ UNCHANGED notEnv

\* run_claude: Popen(cmd, cwd=env_dir, env with CLAUDE_CONFIG_DIR below env_dir)
LaunchAgent(t) ==
    /\ phase[t] = "built"
    /\ agent' = [agent EXCEPT ![t] = [alive |-> TRUE, config |-> env_dir[t]]]
    /\ dirs' = [dirs EXCEPT ![env_dir[t]] = Use(@, t)]
    /\ phase' = [phase EXCEPT ![t] = "agent"]
    /\ UNCHANGED <<env_dir, artifacts>>
    /\ UNCHANGED schedVars
    /\ UNCHANGED notEnv

\* run_claude returns (parsed, success, error, raw_json); the process exited
\* or was killed.
AgentEnds(t) ==
    /\ phase[t] = "agent"
    /\ agent' = [agent EXCEPT ![t].alive = FALSE]
    /\ phase' = [phase EXCEPT ![t] = "supervised"]
    /\ UNCHANGED <<env_dir, dirs, artifacts>>
    /\ UNCHANGED schedVars
    /\ UNCHANGED notEnv

\* Lines 592-615: output.md, raw.jsonl and metadata.yaml.
Record(t) ==
    /\ phase[t] = "supervised"
    /\ artifacts' = [artifacts EXCEPT ![t] = Artifacts]
    /\ phase' = [phase EXCEPT ![t] = "recorded"]
    /\ UNCHANGED <<env_dir, dirs, agent>>
    /\ UNCHANGED schedVars
    /\ UNCHANGED notEnv

\* Lines 617-631: the changed files are found in env_dir and copied, and the
\* transcript is generated from env_dir.
CopyChanges(t) ==
    /\ phase[t] = "recorded"
    /\ dirs' = [dirs EXCEPT ![env_dir[t]] = Use(@, t)]
    /\ phase' = [phase EXCEPT ![t] = "diffed"]
    /\ UNCHANGED <<env_dir, agent, artifacts>>
    /\ UNCHANGED schedVars
    /\ UNCHANGED notEnv

\* shutil.rmtree(env_dir, ignore_errors=True) removes the directory.
Cleanup(t) ==
    /\ phase[t] = "diffed"
    /\ dirs' = [dirs EXCEPT ![env_dir[t]] = [NoDir EXCEPT !.made = dirs[env_dir[t]].made]]
    /\ phase' = [phase EXCEPT ![t] = "cleaned"]
    /\ UNCHANGED <<env_dir, agent, artifacts>>
    /\ UNCHANGED schedVars
    /\ UNCHANGED notEnv

\* rmtree meets an error (a directory the agent made unreadable): with
\* ignore_errors it returns silently and what it could not remove stays.
CleanupFails(t) ==
    /\ phase[t] = "diffed"
    /\ dirs' = [dirs EXCEPT ![env_dir[t]] = Use(@, t)]
    /\ phase' = [phase EXCEPT ![t] = "cleaned"]
    /\ UNCHANGED <<env_dir, agent, artifacts>>
    /\ UNCHANGED schedVars
    /\ UNCHANGED notEnv

\* How the run_scenario call of task t ended.
ScenarioOutcomes(t) ==
    IF phase[t] = "raised" THEN {"Failed to download skill"}
    ELSE IF phase[t] = "cleaned" THEN {"ok", "fail"}
    ELSE {}

\* run_scenario returns or raises in a worker thread of run_parallel.
ScenarioEndsInWorker(t) ==
    /\ parallel
    /\ \E o \in ScenarioOutcomes(t) : WorkerFinish(t, o)

\* run_scenario returns or raises in the sequential loop.
ScenarioEndsInLoop ==
    /\ ~parallel
    /\ seqIdx \in 1..NumTasks
    /\ \E o \in ScenarioOutcomes(seqIdx) : SeqRun(o)

InitEnv == Init /\ nTasks <= EnvTasks

NextEnv ==
    \/ Submit
    \/ \E t \in 1..NumTasks : WorkerStart(t)
    \/ \E t \in 1..NumTasks, name \in EnvNames : Mkdtemp(t, name)
    \/ \E t \in 1..NumTasks : BuildEnv(t)
    \/ \E t \in 1..NumTasks : BuildFails(t)
    \/ \E t \in 1..NumTasks : LaunchAgent(t)
    \/ \E t \in 1..NumTasks : AgentEnds(t)
    \/ \E t \in 1..NumTasks : Record(t)
    \/ \E t \in 1..NumTasks : CopyChanges(t)
    \/ \E t \in 1..NumTasks : Cleanup(t)
    \/ \E t \in 1..NumTasks : CleanupFails(t)
    \/ \E t \in 1..NumTasks : ScenarioEndsInWorker(t)
    \/ ScenarioEndsInLoop
    \/ \E t \in 1..NumTasks : Collect(t)
    \/ Return
    \/ Propagate

SpecEnv == InitEnv /\ [][NextEnv]_vars

(***************************************************************************)
(* The output directories of a batch.  The run command loads every         *)
(* scenario (models.load_scenario: the scenario's name is its directory's  *)
(* name, the skill sets are the entries of `sets` in skill-sets.yaml, each *)
(* with the name written there), builds one task per scenario and skill    *)
(* set, and the tasks' pipelines write their artifacts under               *)
(* run_dir / scenario.name / skill_set.name, several at a time.            *)
(***************************************************************************)
MaxSets == 2         \* most skill sets in one skill-sets.yaml

SeqsUpTo(S, n) == UNION {[1..k -> S] : k \in 0..n}

\* [RunTask(s, ss, run_dir) for ss in s.skill_sets], for the scenario at
\* place s of the sorted scenario directories.
TasksOfScenario(s) ==
    [i \in 1..Len(skill_sets[s]) |->
        [scenario |-> ScenarioNames[s], skill_set |-> skill_sets[s][i]]]

\* ... for s in scenarios, up to the scenario at place n.
RECURSIVE BuildTasks(_)
BuildTasks(n) ==
    IF n = 0 THEN <<>> ELSE BuildTasks(n - 1) \o TasksOfScenario(n)

\* output_dir = run_dir / scenario.name / skill_set.name
output_dir(task) == <<task.scenario, task.skill_set>>

OutInit ==
    /\ oPc = "load"
    /\ skill_sets \in [DOMAIN ScenarioNames -> SeqsUpTo(SetNames, MaxSets)]
    /\ tasks = <<>>
    /\ recPc = <<>>
    /\ writers = [d \in OutputDirs |-> {}]

InitOut ==
    /\ OutInit /\ SchedIdle /\ ClaudeIdle /\ DecodeIdle /\ DiffIdle /\ EnvInit
    /\ RunIdle /\ UrlIdle

\* tasks = [RunTask(...) for s in scenarios for ss in s.skill_sets]
BuildBatch ==
    /\ oPc = "load"
    /\ tasks' = BuildTasks(Len(ScenarioNames))
    /\ recPc' = [k \in DOMAIN BuildTasks(Len(ScenarioNames)) |-> "waiting"]
    /\ oPc' = "run"
    /\ UNCHANGED <<skill_sets, writers>>
    /\ UNCHANGED notOut

\* The pipeline of the task at place k reaches line 592: it makes its
\* output directory (exist_ok=True) and begins to write its files there.
BeginRecord(k) ==
    /\ oPc = "run"
    /\ recPc[k] = "waiting"
    /\ recPc' = [recPc EXCEPT ![k] = "writing"]
    /\ writers' = [writers EXCEPT ![output_dir(tasks[k])] = @ \cup {k}]
    /\ UNCHANGED <<oPc, skill_sets, tasks>>
    /\ UNCHANGED notOut

\* ... and has written the last of them.
EndRecord(k) ==
    /\ oPc = "run"
    /\ recPc[k] = "writing"
    /\ recPc' = [recPc EXCEPT ![k] = "written"]
    /\ UNCHANGED <<oPc, skill_sets, tasks, writers>>
    /\ UNCHANGED notOut

NextOut ==
    \/ BuildBatch
    \/ \E k \in DOMAIN tasks : BeginRecord(k)
    \/ \E k \in DOMAIN tasks : EndRecord(k)

SpecOut == InitOut /\ [][NextOut]_vars

(***************************************************************************)
(* One call of Runner.run_scenario in detail: prepare_environment, the     *)
(* call of run_claude, the artifacts, the changed files, the cleanup and   *)
(* the RunResult.  A tree is a function from the paths of its files to     *)
(* where each file's content comes from.                                   *)
(***************************************************************************)
Overlay(tree, written) ==
    [p \in (DOMAIN tree) \cup (DOMAIN written) |->
        IF p \in DOMAIN written THEN written[p] ELSE tree[p]]

OneFile(path, content) == [p \in {path} |-> content]

LocalSkill == "skills/local-skill"

MissingSkill == "skills/missing-skill"

RemoteSkill == "https://example.com/skills/remote-skill/SKILL.md"

_is_url(skill_path) == skill_path = RemoteSkill

\* self.repo_dir / skill_path exists
SkillExists(skill_path) == skill_path = LocalSkill

ManifestPath == ".claude/mcp-servers.json"

ContextDirs ==
    {[exists |-> FALSE, files |-> EmptyTree],
     [exists |-> TRUE, files |-> OneFile("models/a.sql", "context")],
     [exists |-> TRUE, files |-> OneFile(".env", "context")],
     [exists |-> TRUE, files |-> OneFile(ManifestPath, "context")]}

\* `if mcp_servers:` (run_scenario passes None for an empty mapping).
ConfiguredAlways(servers) == TRUE

Configured(servers) == servers # {}

\* `for skill_path in skills`: each skill lands below .claude/skills; a
\* local path that does not exist is passed over.
RECURSIVE LoadSkills(_, _)
LoadSkills(list, tree) ==
    IF list = <<>> THEN tree
    ELSE LET skill_path == Head(list)
             loaded ==
                 IF _is_url(skill_path)
                 THEN Overlay(tree, OneFile(".claude/skills/remote-skill/SKILL.md", "download"))
                 ELSE IF SkillExists(skill_path)
                 THEN Overlay(tree, OneFile(".claude/skills/local-skill/SKILL.md", "repository"))
                 ELSE tree
         IN  LoadSkills(Tail(list), loaded)

\* prepare_environment, for a keychain that holds credentials or not and a
\* remote host that answers or not: whether it raised, the tree of env_dir it
\* left, and the manifest path it returned.
PrepareEnvironment(credentials, fetched) ==
    LET withContext == IF context.exists THEN context.files ELSE EmptyTree
        withCredentials ==
            IF credentials
            THEN Overlay(withContext, OneFile(".claude/.credentials.json", "keychain"))
            ELSE withContext
        fetchFails == ~fetched /\ \E k \in DOMAIN skills : _is_url(skills[k])
        withSkills == LoadSkills(skills, withCredentials)
        withManifest ==
            IF Configured(mcp_servers)
            THEN Overlay(withSkills, OneFile(ManifestPath, "mcpServers"))
            ELSE withSkills
        withEnv ==
            IF Configured(mcp_servers) /\ scenario_env
            THEN Overlay(withManifest, OneFile(".env", "scenario"))
            ELSE withManifest
    IN  IF fetchFails
        THEN [raised |-> TRUE, files |-> withCredentials, mcp_config_path |-> "None"]
        ELSE [raised |-> FALSE, files |-> withEnv,
              mcp_config_path |-> IF Configured(mcp_servers) THEN ManifestPath ELSE "None"]

\* How the supervising loop can end, as the cause and the return code that
\* run_claude then holds.
LoopEnds == {"exit 0", "exit 1", "timeout", "stall"}

CauseOf(how) == IF how \in {"timeout", "stall"} THEN how ELSE "none"

ReturnCodeOf(how) == IF how = "exit 0" THEN 0 ELSE IF how = "exit 1" THEN 1 ELSE -1

\* What the agent wrote to stdout during the call.
AgentOutputs == {<<>>, <<Unit(TextLine, "line")>>, <<Unit(NullUsageLine, "line")>>}

\* The dict dumped into metadata.yaml (lines 598-615), by the keys that
\* tell how the run went: "error" is there only `if error:`.
Metadata(r) ==
    IF r.error # NoError
    THEN [success |-> r.success, skills_invoked |-> r.parsed.skills_invoked,
          error |-> r.error]
    ELSE [success |-> r.success, skills_invoked |-> r.parsed.skills_invoked]

\* _find_changed_files(context_dir, env_dir, exclude_names) on the tree of
\* this call: the files the agent left at the top of env_dir.
ChangedFiles == {p \in DOMAIN env_tree.files : env_tree.files[p] = "agent"}

RunInit ==
    /\ sPc = "start"
    /\ skills \in {<<>>, <<LocalSkill>>, <<MissingSkill>>, <<RemoteSkill>>,
                   <<LocalSkill, RemoteSkill>>}
    /\ mcp_servers \in SUBSET {"dbt"}
    /\ scenario_env \in BOOLEAN
    /\ context \in ContextDirs
    /\ env_tree = [exists |-> FALSE, files |-> EmptyTree]
    /\ mcp_config_path = "None"
    /\ ended = "not yet"
    /\ claude_ret = [returned |-> FALSE]
    /\ output = EmptyTree
    /\ steps = <<>>
    /\ run_result = [returned |-> FALSE]

InitRun ==
    /\ RunInit /\ SchedIdle /\ ClaudeIdle /\ DecodeIdle /\ DiffIdle /\ EnvInit
    /\ OutIdle /\ UrlIdle

\* Lines 572-577: env_dir, mcp_config_path = self.prepare_environment(...).
\* An exception of _download_skill leaves run_scenario.
Prepare ==
    /\ sPc = "start"
    /\ \E credentials, fetched \in BOOLEAN :
          LET made == PrepareEnvironment(credentials, fetched)
          IN  /\ env_tree' = [exists |-> TRUE, files |-> made.files]
              /\ mcp_config_path' = made.mcp_config_path
              /\ sPc' = IF made.raised THEN "raised" ELSE "built"
              /\ steps' = IF made.raised THEN steps ELSE Append(steps, "build")
    /\ UNCHANGED <<skills, mcp_servers, scenario_env, context, ended, claude_ret,
                   output, run_result>>
    /\ UNCHANGED notRun

\* run_claude launches the agent and supervises it until the loop ends;
\* the agent may have left a file in env_dir.
Supervise(how, wrote) ==
    /\ sPc = "built"
    /\ ended' = how
    /\ env_tree' = IF wrote
                   THEN [env_tree EXCEPT !.files = Overlay(@, OneFile("result.txt", "agent"))]
                   ELSE env_tree
    /\ steps' = Append(steps, "supervise")
    /\ sPc' = "exited"
    /\ UNCHANGED <<skills, mcp_servers, scenario_env, context, mcp_config_path,
                   claude_ret, output, run_result>>
    /\ UNCHANGED notRun

\* Popen or the supervising loop raises: run_claude returns from its
\* exception handler, without decoding.
SuperviseRaises(e) ==
    /\ sPc = "built"
    /\ claude_ret' = ExceptionReturn(e)
    /\ sPc' = "supervised"
    /\ UNCHANGED <<skills, mcp_servers, scenario_env, context, env_tree,
                   mcp_config_path, ended, output, steps, run_result>>
    /\ UNCHANGED notRun

\* Lines 544-556 of run_claude: drain, decode what was read, return.
DecodeAndReturn(lines) ==
    /\ sPc = "exited"
    /\ LET r == NormalReturn(lines, <<>>, CauseOf(ended), ReturnCodeOf(ended))
       IN  /\ claude_ret' = r
           /\ steps' = IF r.raised \/ lines = <<>> THEN steps ELSE Append(steps, "decode")
    /\ sPc' = "supervised"
    /\ UNCHANGED <<skills, mcp_servers, scenario_env, context, env_tree,
                   mcp_config_path, ended, output, run_result>>
    /\ UNCHANGED notRun

\* Lines 592-615: output.md, raw.jsonl, metadata.yaml.
WriteArtifacts ==
    /\ sPc = "supervised"
    /\ output' = Overlay(Overlay(OneFile("output.md", claude_ret.parsed.output_text),
                                 OneFile("raw.jsonl", claude_ret.raw_json)),
                         OneFile("metadata.yaml", Metadata(claude_ret)))
    /\ steps' = Append(steps, "record")
    /\ sPc' = "recorded"
    /\ UNCHANGED <<skills, mcp_servers, scenario_env, context, env_tree,
                   mcp_config_path, ended, claude_ret, run_result>>
    /\ UNCHANGED notRun

\* Lines 617-629: the changed files are found and copied below changes/.
CopyChangedFiles ==
    /\ sPc = "recorded"
    /\ output' = Overlay(output, [p \in ChangedFiles |-> "changes"])
    /\ steps' = Append(steps, "diff")
    /\ sPc' = "diffed"
    /\ UNCHANGED <<skills, mcp_servers, scenario_env, context, env_tree,
                   mcp_config_path, ended, claude_ret, run_result>>
    /\ UNCHANGED notRun

\* shutil.rmtree(env_dir) is the statement after the changed files were
\* copied and the transcript was made.
ArtifactsWrittenOrFilesCopied == sPc \in {"recorded", "diffed"}

ChangedFilesCopied == sPc = "diffed"

\* Lines 631-632: the transcript, then shutil.rmtree(env_dir).
RemoveEnv ==
    /\ ChangedFilesCopied
    /\ env_tree' = [exists |-> FALSE, files |-> EmptyTree]
    /\ steps' = Append(steps, "cleanup")
    /\ sPc' = "cleaned"
    /\ UNCHANGED <<skills, mcp_servers, scenario_env, context, mcp_config_path,
                   ended, claude_ret, output, run_result>>
    /\ UNCHANGED notRun

\* Lines 634-642: return RunResult(...).
ReturnResult ==
    /\ sPc = "cleaned"
    /\ run_result' = [returned |-> TRUE, success |-> claude_ret.success,
                      error |-> claude_ret.error,
                      output |-> claude_ret.parsed.output_text]
    /\ sPc' = "returned"
    /\ UNCHANGED <<skills, mcp_servers, scenario_env, context, env_tree,
                   mcp_config_path, ended, claude_ret, output, steps>>
    /\ UNCHANGED notRun

NextRun ==
    \/ Prepare
    \/ \E how \in LoopEnds, wrote \in BOOLEAN : Supervise(how, wrote)
    \/ \E e \in {"FileNotFoundError", "AttributeError"} : SuperviseRaises(e)
    \/ \E lines \in AgentOutputs : DecodeAndReturn(lines)
    \/ WriteArtifacts
    \/ CopyChangedFiles
    \/ RemoveEnv
    \/ ReturnResult

SpecRun == InitRun /\ [][NextRun]_vars

(***************************************************************************)
(* One _download_skill call: the url is normalised, the folder of          *)
(* skills_dir is chosen from it, and the document is fetched               *)
(* (runner.py 126-191).  A url is what urlparse makes of it: netloc as     *)
(* the labels of the host name and the port ("" when the url has none),    *)
(* path as the segments between its slashes.  A name is the sequence of    *)
(* its pieces, so that a dot replaced by a dash shows.                      *)
(***************************************************************************)
GitHubHost == <<"github", "com">>

RawHost == <<"raw", "githubusercontent", "com">>

OtherHosts == {<<"example", "com">>, <<"localhost">>, <<"docs", "example", "org">>}

Ports == {"", "8080"}

\* Branches, tags and commit SHAs; a branch name may hold a slash.
Refs == {<<"main">>, <<"v1.0">>, <<"feature", "x">>}

\* Where SKILL.md sits below the repository or the host: <<>> is the root.
Dirs == {<<>>, <<"my-skill">>, <<"skills", "x">>, <<"a", "b", "c">>}

\* The urls the runs are given: a document on GitHub in its blob or its raw
\* form, or a document on another host.
UrlOf(o) ==
    CASE o.kind = "blob" ->
            [host |-> GitHubHost, port |-> "",
             path |-> <<"org", "repo", "blob">> \o o.ref \o o.dir \o <<"SKILL.md">>]
      [] o.kind = "raw" ->
            [host |-> RawHost, port |-> "",
             path |-> <<"org", "repo">> \o o.ref \o o.dir \o <<"SKILL.md">>]
      [] OTHER ->
            [host |-> o.host, port |-> o.port, path |-> o.dir \o <<"SKILL.md">>]

Origins ==
    {[kind |-> k, host |-> <<>>, port |-> "", ref |-> r, dir |-> d] :
        k \in {"blob", "raw"}, r \in Refs, d \in Dirs}
    \cup {[kind |-> "other", host |-> h, port |-> p, ref |-> <<>>, dir |-> d] :
              h \in OtherHosts, p \in Ports, d \in Dirs}

\* Lines 126-144.  parsed.path.split("/") starts with the empty string before
\* the first slash; the rewritten url has no port and no "blob".
_normalize_github_url(u) ==
    IF ~(u.host = GitHubHost /\ u.port = "")
    THEN u
    ELSE LET path_parts == <<"">> \o u.path
         IN  IF Len(path_parts) >= 5 /\ path_parts[4] = "blob"
             THEN [host |-> RawHost, port |-> "",
                   path |-> Tail(SubSeq(path_parts, 1, 3)
                                 \o SubSeq(path_parts, 5, Len(path_parts)))]
             ELSE u

\* str.replace(".", "-") on a host name without a port.
RECURSIVE Dashed(_)
Dashed(labels) ==
    IF Len(labels) <= 1
    THEN labels
    ELSE <<Head(labels), "-">> \o Dashed(Tail(labels))

\* parsed.netloc.replace(".", "-"): netloc is the host name and, when the url
\* has one, a colon and the port.
NetlocReplaced(u) == Dashed(u.host) \o (IF u.port = "" THEN <<>> ELSE <<":", u.port>>)

HostnameReplaced(u) == Dashed(u.host)

\* Lines 161-180.
FolderName(u) ==
    LET all_parts == SelectSeq(u.path, LAMBDA p : p # "")
        n == Len(all_parts)
    IN  IF u.host = RawHost /\ u.port = ""
        THEN IF n <= 4
             THEN IF n >= 2 THEN <<all_parts[2]>> ELSE <<"downloaded-skill">>
             ELSE <<all_parts[n - 1]>>
        ELSE IF n >= 2
             THEN <<all_parts[n - 1]>>
             ELSE NetlocReplaced(u)

UrlInit ==
    /\ uPc = "start"
    /\ origin \in Origins
    /\ url = UrlOf(origin)
    /\ download_url = NoUrl
    /\ folder_name = <<>>

InitUrl ==
    /\ UrlInit /\ SchedIdle /\ ClaudeIdle /\ DecodeIdle /\ DiffIdle /\ EnvInit
    /\ OutIdle /\ RunIdle

\* Line 161: download_url = self._normalize_github_url(url).
Normalize ==
    /\ uPc = "start"
    /\ download_url' = _normalize_github_url(url)
    /\ uPc' = "normalized"
    /\ UNCHANGED <<origin, url, folder_name>>
    /\ UNCHANGED notUrl

\* Lines 163-183: the folder name, and the folder made under skills_dir.
NameFolder ==
    /\ uPc = "normalized"
    /\ folder_name' = FolderName(download_url)
    /\ uPc' = "named"
    /\ UNCHANGED <<origin, url, download_url>>
    /\ UNCHANGED notUrl

\* Lines 185-191: urlopen and dest.write_text, or a URLError turned into
\* RuntimeError("Failed to download skill from ...").
Download(ok) ==
    /\ uPc = "named"
    /\ uPc' = IF ok THEN "saved" ELSE "raised"
    /\ UNCHANGED <<origin, url, download_url, folder_name>>
    /\ UNCHANGED notUrl

NextUrl ==
    \/ Normalize
    \/ NameFolder
    \/ \E ok \in BOOLEAN : Download(ok)

SpecUrl == InitUrl /\ [][NextUrl]_vars

(***************************************************************************)
(* Claims about the scheduler, checked under Spec.                         *)
(***************************************************************************)
ResultsFor(t) ==
    {k \in DOMAIN results :
        /\ results[k].scenario_name = TaskScenario[t]
        /\ results[k].skill_set_name = TaskSkillSet[t]}

CallsFor(t) == {k \in DOMAIN cbCalls : cbCalls[k].task = t}

Ended == mainPc \in {"returned", "raised"}

\* C1: for every batch of N tasks and every combination of per-task outcomes,
\* run_parallel returns, and the list it returns holds exactly N RunResults.
C1_ReturnsOneResultPerTask ==
    (parallel /\ Ended) => (mainPc = "returned" /\ Len(results) = nTasks)

\* C2: when run_parallel has returned, a task whose pipeline raised has
\* exactly one RunResult in the list: it is failed, carries the task's
\* scenario and skill-set names, and its error text contains the exception's
\* description; every sibling ran to completion and the result its pipeline
\* returned is in the list.
C2_RaisedTaskYieldsOneFailedResult ==
    (parallel /\ mainPc = "returned") =>
        \A t \in Tasks :
            /\ taskState[t] = "done"
            /\ outcome[t] \in ExcDescs =>
                  /\ Cardinality(ResultsFor(t)) = 1
                  /\ \A k \in ResultsFor(t) :
                        /\ results[k].success = FALSE
                        /\ outcome[t] \in Range(results[k].error)
            /\ outcome[t] \notin ExcDescs =>
                  PipelineResult(t, outcome[t]) \in Range(results)

C2_Witness ==
    /\ parallel
    /\ mainPc = "returned"
    /\ \E t, u \in Tasks : outcome[t] \in ExcDescs /\ outcome[u] = "ok"

\* C3: with max_workers = K, never more than K tasks are inside run_scenario
\* at once, whatever the number of submitted tasks.
C3_AtMostMaxWorkersRunning ==
    parallel => Cardinality(Running) <= max_workers

\* A full pool with a task still waiting in the queue.
C3_Witness ==
    /\ parallel
    /\ nTasks > max_workers
    /\ Cardinality(Running) = max_workers
    /\ Queued # {}

\* C4: a supplied progress callback is invoked only for tasks that have
\* completed, and by the time run_parallel ends it was invoked exactly once
\* for each submitted task, with the RunResult recorded for that task.
C4_CallbackOncePerTask ==
    (parallel /\ hasCallback) =>
        /\ \A k \in DOMAIN cbCalls : taskState[cbCalls[k].task] = "done"
        /\ \A t \in yielded :
              /\ Cardinality(CallsFor(t)) = 1
              /\ \A k \in CallsFor(t) :
                    \A j \in ResultsFor(t) : results[j] = cbCalls[k].result
        /\ Ended => (mainPc = "returned" /\ yielded = Tasks)

\* C5: in sequential execution an exception raised by one task's pipeline
\* does not abort the remaining tasks: when the loop has ended, every task
\* of the batch was executed.
C5_SequentialRunsEveryTask ==
    (~parallel /\ Ended) => \A t \in Tasks : taskState[t] = "done"

(***************************************************************************)
(* Claims about the process supervisor, checked under SpecClaude.          *)
(***************************************************************************)
Supervising == rcPc \notin {"launch", "done"} /\ proc = "running"

\* What one line adds to the decoded record is found in the record.
Contributes(u, parsed) ==
    LET own == ParseJsonOutput(<<u>>)
    IN  own.exc = "none" =>
            /\ Range(own.output_text) \subseteq Range(parsed.output_text)
            /\ Range(own.skills_invoked) \subseteq Range(parsed.skills_invoked)
            /\ own.tools_used \subseteq parsed.tools_used

Returned(lines) ==
    \A k \in DOMAIN lines :
        /\ k \in DOMAIN ret.raw_json
        /\ ret.raw_json[k] = lines[k]
        /\ Contributes(lines[k], ret.parsed)

\* C6: a running process from which no output line was received for more
\* than stall_timeout seconds, within the total timeout, is killed (at the
\* next poll, so the silence never exceeds stall_timeout + PollInterval) and
\* run_claude returns success = False with the stall cause, a string other
\* than the timeout cause.
C6_StallKillsWithStallCause ==
    /\ (Supervising /\ now - start_time <= timeout) =>
           now - last_output_time <= stall_timeout + PollInterval
    /\ (rcPc = "done" /\ error_msg = "stall") =>
           (ret.success = FALSE /\ ret.error = StallMsg)
    /\ StallMsg # TimeoutMsg

\* C7: a process still running when the elapsed time exceeds timeout is
\* killed (at the next poll, so it never runs past timeout + PollInterval),
\* whatever it writes, and run_claude returns success = False with the
\* timeout cause.
C7_TimeoutKillsWithTimeoutCause ==
    /\ Supervising => now - start_time <= timeout + PollInterval
    /\ (rcPc = "done" /\ error_msg = "timeout") =>
           (ret.success = FALSE /\ ret.error = TimeoutMsg)

\* C8: run_claude returns success = True exactly when no timer expired, no
\* exception was raised while launching, supervising or decoding, and the
\* process exited with code zero.
C8_SuccessIffNoTimerAndExitZero ==
    rcPc = "done" =>
        (ret.success = TRUE <=>
            (error_msg = "none" /\ ~ret.raised /\ exitCode = 0))

C8_Witness ==
    /\ rcPc = "done"
    /\ ret.success = TRUE
    /\ stdout_lines # <<>>

\* C9: after a kill by either timer, every line received before the kill is
\* in the returned raw output and its text, tools and skills are in the
\* returned record, and the result is failed with that timer's cause.
C9_PartialOutputReturnedAfterKill ==
    (rcPc = "done" /\ error_msg # "none") =>
        /\ ret.success = FALSE
        /\ ret.error = ErrorText(error_msg)
        /\ Returned(atKill)

\* C10: a malformed line in the stream is never fatal: run_claude ends
\* without an exception, and the raw output and the record it returns hold
\* every line it received.
C10_MalformedLineNeverFatal ==
    (rcPc = "done" /\ proc # "none") =>
        /\ ~ret.raised
        /\ Returned(stdout_lines)

(***************************************************************************)
(* Claims about the stream decoder, checked under SpecDecode.              *)
(***************************************************************************)
DecoderReturned == dPc = "decoded"

\* Every content segment of the assistant events of a text, in stream order.
RECURSIVE Segments(_)
Segments(raw) ==
    IF raw = <<>> THEN <<>>
    ELSE LET u == Head(raw)
         IN  (IF Kept(u) /\ u.msg.type = "assistant" THEN u.msg.content ELSE <<>>)
             \o Segments(Tail(raw))

NamesSkill(c) == c.type = "tool_use" /\ c.name = "Skill" /\ c.skill # ""

UsesTool(c) == c.type = "tool_use" /\ c.name # ""

SkillNames(raw) ==
    LET segs == SelectSeq(Segments(raw), NamesSkill)
    IN  [k \in DOMAIN segs |-> segs[k].skill]

ToolNames(raw) ==
    LET segs == SelectSeq(Segments(raw), UsesTool)
    IN  {segs[k].name : k \in DOMAIN segs}

\* C11: _parse_json_output returns a record and never raises, whatever the
\* text: the empty string gives empty output_text, skills_invoked and
\* tools_used; lines that are no JSON, values that are no objects and objects
\* with null fields give a record too.
C11_DecoderNeverRaises ==
    DecoderReturned =>
        /\ record.exc = "none"
        /\ json_str = <<>> =>
               /\ record.output_text = <<>>
               /\ record.skills_invoked = <<>>
               /\ tools_used_list = <<>>

\* C12: decoding a text again after deleting every line that is blank, is no
\* JSON or is no JSON object gives what the first call gave: the same
\* record, so the other lines contribute what they contributed before.
C12_DeletingSkippedLinesChangesNothing ==
    (DecoderReturned /\ deleted) =>
        /\ record.exc = prevRecord.exc
        /\ record.exc = "none" => record = prevRecord

\* C13: in a decoded record skills_invoked is the sequence of the non-empty
\* skill names of the tool_use segments named Skill in assistant events, in
\* stream order with duplicates kept, and every used tool name is in
\* tools_used exactly once (and nothing else is).
C13_SkillsInOrderToolsOnce ==
    (DecoderReturned /\ record.exc = "none") =>
        /\ record.skills_invoked = SkillNames(json_str)
        /\ Range(tools_used_list) = ToolNames(json_str)
        /\ \A name \in ToolNames(json_str) :
               Cardinality({k \in DOMAIN tools_used_list : tools_used_list[k] = name}) = 1

\* A skill invoked twice with another one in between, and two tools used
\* several times.
C13_Witness ==
    /\ DecoderReturned
    /\ record.exc = "none"
    /\ Len(record.skills_invoked) = 3
    /\ record.skills_invoked[1] = record.skills_invoked[3]
    /\ record.skills_invoked[1] # record.skills_invoked[2]
    /\ Len(tools_used_list) = 2

(***************************************************************************)
(* Claims about the change-set detector, checked under SpecDiff.           *)
(***************************************************************************)
Found == fPc \in {"found", "found again"}

HasExcludedComponent(path) == \E k \in DOMAIN path : path[k] \in exclude_names

SameContent(path) ==
    /\ IsFile(original, path)
    /\ IsFile(modified, path)
    /\ original[path].content = modified[path].content

\* C14: no path returned has a component, directory or file name at any
\* depth, that is in exclude_names: with an original directory, without one
\* (absent or None), and inside a directory only the modified tree has.
C14_NoExcludedComponentReported ==
    Found => \A path \in changed : ~HasExcludedComponent(path)

C16_ChangedAndNewFilesReported ==
    (Found /\ original_dir = "dir") =>
        \A path \in DOMAIN modified :
            ( /\ IsFile(modified, path)
              /\ ~HasExcludedComponent(path)
              /\ ~SameContent(path) )
            => path \in changed

InFlight(t) ==
    phase[t] \in {"building", "built", "agent", "supervised", "recorded", "diffed"}

TaskEnded(t) == taskState[t] = "done"

C19_EnvironmentRemovedWhenTaskEnded ==
    \A t \in Tasks :
        (TaskEnded(t) /\ env_dir[t] \in EnvNames) =>
            ~(dirs[env_dir[t]].exists /\ t \in dirs[env_dir[t]].users)

\* C20: every RunResult in the list of run_parallel, and every RunResult
\* passed to the progress callback, belongs to a task whose output.md,
\* raw.jsonl and metadata.yaml were written before.
C20_ArtifactsWrittenBeforeResult ==
    /\ \A t \in Tasks : ResultsFor(t) # {} => artifacts[t] = Artifacts
    /\ \A k \in DOMAIN cbCalls : artifacts[cbCalls[k].task] = Artifacts

(***************************************************************************)
(* Further claims about the scheduler, checked under Spec.                 *)
(***************************************************************************)
\* C28: when the progress callback raises while invoked for a task whose
\* pipeline returned normally, exactly one RunResult is recorded for the
\* task, the one the pipeline returned, and the callback is invoked once
\* for it.  (Every collected task whose pipeline returned is looked at: the
\* callback either returned or raised for it.)
C28_RaisingCallbackLeavesOneResult ==
    (parallel /\ hasCallback) =>
        \A t \in yielded :
            outcome[t] \notin ExcDescs =>
                /\ Cardinality(ResultsFor(t)) = 1
                /\ \A k \in ResultsFor(t) : results[k] = PipelineResult(t, outcome[t])
                /\ Cardinality(CallsFor(t)) = 1

\* s2 is s1 with entries added at its end.
Extends(s2, s1) ==
    /\ Len(s2) >= Len(s1)
    /\ SubSeq(s2, 1, Len(s1)) = s1

\* C29: the result list grows and the progress callback is invoked only in
\* a step of the calling thread inside its collecting loop, and such a step
\* handles one completed task: everything it appends and every callback
\* invocation it makes is for that one task, also when other workers have
\* finished or are running at that moment.
C29_OnlyCallerAppendsAndCalls ==
    [][(results' # results \/ cbCalls' # cbCalls) =>
          /\ parallel
          /\ mainPc = "collect"
          /\ Extends(results', results)
          /\ Extends(cbCalls', cbCalls)
          /\ \E t \in Tasks \ yielded :
                /\ taskState[t] = "done"
                /\ yielded' = yielded \cup {t}
                /\ \A k \in (DOMAIN results') \ (DOMAIN results) :
                      /\ results'[k].scenario_name = TaskScenario[t]
                      /\ results'[k].skill_set_name = TaskSkillSet[t]
                /\ \A k \in (DOMAIN cbCalls') \ (DOMAIN cbCalls) :
                      cbCalls'[k].task = t]_vars

\* The callback was invoked for one task while a second one had finished
\* too and a third was still inside its pipeline.
C29_Witness ==
    /\ parallel
    /\ hasCallback
    /\ Len(cbCalls) >= 1
    /\ Running # {}
    /\ \E t, u \in Tasks :
          /\ t \in yielded
          /\ u \notin yielded
          /\ taskState[u] = "done"

(***************************************************************************)
(* Further claims about the process supervisor, checked under SpecClaude.  *)
(***************************************************************************)
\* C30: whenever run_claude has returned, after a normal exit, after a timer
\* expiry or through its exception handler, the agent process it launched
\* is no longer running.
C30_ReturnsOnlyAfterProcessEnded ==
    rcPc = "done" => proc # "running"

\* The process completed a line at least once in every window of
\* stall_timeout seconds since it was launched.
EmitsRegularly == silence <= stall_timeout

\* C27: a process that emits a complete line at least once within every
\* stall_timeout-second window is never killed with the stall cause, and its
\* run ends only by the process exiting or by the total-runtime timeout.
C27_RegularOutputNeverStalls ==
    EmitsRegularly =>
        /\ error_msg # "stall"
        /\ (rcPc = "done" /\ proc # "none") =>
               (proc = "exited" \/ error_msg = "timeout")

(***************************************************************************)
(* Claims about the output directories, checked under SpecOut.             *)
(***************************************************************************)
\* C23: two distinct tasks of a batch never have the same output directory,
\* no output directory is written by two tasks, and two tasks never write
\* into the same directory at the same time.
C23_OutputDirectoriesNotShared ==
    /\ \A j, k \in DOMAIN tasks :
          j # k => output_dir(tasks[j]) # output_dir(tasks[k])
    /\ \A d \in OutputDirs : Cardinality(writers[d]) <= 1
    /\ \A j, k \in DOMAIN tasks :
          (j # k /\ recPc[j] = "writing" /\ recPc[k] = "writing") =>
              output_dir(tasks[j]) # output_dir(tasks[k])

(***************************************************************************)
(* Claims about one run_scenario call, checked under SpecRun.              *)
(***************************************************************************)
\* C21: when the RunResult of a call has success = False, the metadata.yaml
\* written by the call has an error entry that names the cause.
C21_FailedResultHasErrorInMetadata ==
    (sPc = "returned" /\ run_result.success = FALSE) =>
        /\ "metadata.yaml" \in DOMAIN output
        /\ "error" \in DOMAIN output["metadata.yaml"]
        /\ output["metadata.yaml"].error # NoError

Done(step) == step \in Range(steps)

Rank(order, step) == CHOOSE k \in DOMAIN order : order[k] = step

\* The phases that finished did so in the order given, each at most once.
InOrder(order) ==
    \A i, j \in DOMAIN steps :
        i < j => Rank(order, steps[i]) < Rank(order, steps[j])

C26_ManifestAndSecretsOnlyWithServers ==
    sPc = "built" =>
        LET files == env_tree.files
        IN  /\ (mcp_config_path # "None") <=> (mcp_servers # {})
            /\ mcp_servers # {} =>
                   /\ mcp_config_path = ManifestPath
                   /\ ManifestPath \in DOMAIN files
                   /\ files[ManifestPath] = "mcpServers"
            /\ mcp_servers = {} =>
                   \A p \in DOMAIN files : files[p] \notin {"mcpServers", "scenario"}
            /\ (".env" \in DOMAIN files /\ files[".env"] = "scenario")
                   <=> (mcp_servers # {} /\ scenario_env)

\* A server is configured, the scenario has a .env, and the context
\* directory had brought a .env of its own.
C26_Witness ==
    /\ sPc = "built"
    /\ mcp_servers # {}
    /\ scenario_env
    /\ context.exists
    /\ ".env" \in DOMAIN context.files
    /\ skills # <<>>

(***************************************************************************)
(* Further claims about the task pipeline, checked under SpecEnv.          *)
(***************************************************************************)
\* C24: for a task whose environment build failed no agent process was
\* ever launched, and once run_parallel has collected the task it has
\* exactly one RunResult for it, failed, whose error holds the description
\* of the build failure.
C24_BuildFailureNeverLaunches ==
    \A t \in Tasks :
        phase[t] = "raised" =>
            /\ agent[t] = NoAgent
            /\ (parallel /\ t \in yielded) =>
                   /\ Cardinality(ResultsFor(t)) = 1
                   /\ \A k \in ResultsFor(t) :
                         /\ results[k].success = FALSE
                         /\ "Failed to download skill" \in Range(results[k].error)

\* The failed build of one task was collected while the agent of another
\* task was running.
C24_Witness ==
    /\ parallel
    /\ \E t, u \in Tasks :
          /\ phase[t] = "raised"
          /\ t \in yielded
          /\ agent[u].alive

(***************************************************************************)
(* The claim about the folder of a remote skill, checked under SpecUrl.    *)
(***************************************************************************)
\* The folder name that the documentation of _download_skill gives.
StatedFolderName ==
    IF origin.dir # <<>>
    THEN <<origin.dir[Len(origin.dir)]>>
    ELSE IF origin.kind \in {"blob", "raw"}
         THEN <<"repo">>
         ELSE HostnameReplaced(url)

\* C25: the folder of a remote skill is named after the path segment just
\* before the file name; after the repository when the file sits at the
\* root of a GitHub repository; and after the host name, dots replaced by
\* dashes, when the file sits at the root of another host.
C25_FolderNameAsStated ==
    uPc \in {"named", "saved", "raised"} => folder_name = StatedFolderName

====
